---- MODULE Spec2Model ----
(***************************************************************************)
(* bcx: the class merger cx / cn (src/src/class-builder.ts) and the        *)
(* variant resolver createVariants (src/src/create-variants.ts and the two *)
(* further versions of it in src/unnamed/part_000).                        *)
(*                                                                         *)
(* A JavaScript string is a sequence of one-character strings, so that     *)
(* concatenation, trimEnd and the separator are computed, not assumed.     *)
(* A ClassValue is a record [t, b, s, m]: t is the runtime type tag, b the *)
(* boolean, s the string, m the own properties in insertion order.         *)
(***************************************************************************)
EXTENDS Integers, Sequences, FiniteSets, TLC

(***************************************************************************)
(* Bounds of the exploration.                                              *)
(***************************************************************************)
MaxArgs == 2

MaxStrLen == 2

(***************************************************************************)
(* Strings.                                                                *)
(***************************************************************************)
SP == " "

\* characters String.prototype.trimEnd strips (white space and line terminators)
WhiteSpace == {" ", "\t", "\n", "\r"}

Digits == {"0", "1", "2", "3", "4", "5", "6", "7", "8", "9"}

\* a plausible slip: only the separator stripped, not all trailing white space
trimEndOne(s) == IF s # <<>> /\ s[Len(s)] = SP THEN SubSeq(s, 1, Len(s) - 1) ELSE s

RECURSIVE trimEnd(_)
\* String.prototype.trimEnd: every trailing white-space character is removed
trimEnd(s) ==
  IF s # <<>> /\ s[Len(s)] \in WhiteSpace THEN trimEnd(SubSeq(s, 1, Len(s) - 1)) ELSE s

RECURSIVE splitFrom(_, _)
\* the tokens of s after the token begun as `token`
splitFrom(s, token) ==
  IF s = <<>> THEN <<token>>
  ELSE IF s[1] = SP THEN <<token>> \o splitFrom(Tail(s), <<>>)
  ELSE splitFrom(Tail(s), Append(token, s[1]))

\* String.prototype.split(" "): the pieces between single spaces; "" gives [""]
split(s) == splitFrom(s, <<>>)

(***************************************************************************)
(* Values.                                                                 *)
(***************************************************************************)
Val(t, b, s, m) == [t |-> t, b |-> b, s |-> s, m |-> m]

Null == Val("null", FALSE, <<>>, <<>>)

Undefined == Val("undefined", FALSE, <<>>, <<>>)

Bool(b) == Val("boolean", b, <<>>, <<>>)

Str(s) == Val("string", FALSE, s, <<>>)

\* a plain object with own properties m, in insertion order
Obj(m) == Val("object", FALSE, <<>>, m)

\* a function object, as inherited from Object.prototype (constructor, toString, ...)
Fn == Val("function", FALSE, <<>>, <<>>)

\* own property of a Record<string, boolean>: key (string or symbol) and flag value
Entry(sym, name, val) == [sym |-> sym, name |-> name, val |-> val]

\* JavaScript ToBoolean of a flag value: "true", "false", "zero", "null", "undefined",
\* or "cyclic", a reference to the mapping itself
TruthyFlag(v) == v \in {"true", "cyclic"}

\* JavaScript ToBoolean of a ClassValue
Truthy(x) ==
  CASE x.t = "null" -> FALSE
    [] x.t = "undefined" -> FALSE
    [] x.t = "boolean" -> x.b
    [] x.t = "string" -> x.s # <<>>
    [] OTHER -> TRUE

(***************************************************************************)
(* Object.entries: the own enumerable string-keyed properties, in the      *)
(* order of OrdinaryOwnPropertyKeys: array-index keys ascending, then the  *)
(* other string keys in insertion order. Symbol keys are not listed.       *)
(***************************************************************************)
DigitVal(c) ==
  CASE c = "0" -> 0 [] c = "1" -> 1 [] c = "2" -> 2 [] c = "3" -> 3 [] c = "4" -> 4
    [] c = "5" -> 5 [] c = "6" -> 6 [] c = "7" -> 7 [] c = "8" -> 8 [] OTHER -> 9

RECURSIVE NumVal(_)
NumVal(s) ==
  IF s = <<>> THEN 0 ELSE 10 * NumVal(SubSeq(s, 1, Len(s) - 1)) + DigitVal(s[Len(s)])

\* a canonical numeric string: digits only, no leading zero
IsArrayIndex(e) ==
  /\ ~e.sym
  /\ e.name # <<>>
  /\ \A k \in 1..Len(e.name) : e.name[k] \in Digits
  /\ (Len(e.name) = 1 \/ e.name[1] # "0")

IsIndexEntry(e) == IsArrayIndex(e)

IsNamedEntry(e) == ~e.sym /\ ~IsArrayIndex(e)

IsStringKeyed(e) == ~e.sym

RECURSIVE InsertByIndex(_, _)
InsertByIndex(e, es) ==
  IF es = <<>> THEN <<e>>
  ELSE IF NumVal(e.name) < NumVal(es[1].name) THEN <<e>> \o es
  ELSE <<es[1]>> \o InsertByIndex(e, Tail(es))

RECURSIVE SortByIndex(_)
SortByIndex(es) == IF es = <<>> THEN <<>> ELSE InsertByIndex(es[1], SortByIndex(Tail(es)))

\* a plausible reading: every string key in plain insertion order
ObjectEntriesInsertionOrder(x) ==
  IF x.t = "object" THEN SelectSeq(x.m, IsStringKeyed) ELSE <<>>

ObjectEntries(x) ==
  IF x.t = "object"
  THEN SortByIndex(SelectSeq(x.m, IsIndexEntry)) \o SelectSeq(x.m, IsNamedEntry)
  ELSE <<>>

(***************************************************************************)
(* cx and cn (class-builder.ts).                                           *)
(***************************************************************************)
RECURSIVE appendAllKeys(_, _)
\* a plausible slip: the test `if (value)` left out
appendAllKeys(result, es) ==
  IF es = <<>> THEN result ELSE appendAllKeys(result \o es[1].name \o <<SP>>, Tail(es))

RECURSIVE appendValues(_, _)
\* a plausible slip: the value formatted in place of the key (`${value} `)
appendValues(result, es) ==
  IF es = <<>> THEN result
  ELSE appendValues(IF TruthyFlag(es[1].val) THEN result \o <<"t", "r", "u", "e", SP>>
                    ELSE result,
                    Tail(es))

RECURSIVE appendKeys(_, _)
\* for (const [key, value] of Object.entries(input)) if (value) result += `${key} `
appendKeys(result, es) ==
  IF es = <<>> THEN result
  ELSE appendKeys(IF TruthyFlag(es[1].val) THEN result \o es[1].name \o <<SP>> ELSE result,
                  Tail(es))

\* a plausible slip: the accumulator declared outside the function, never reset
initialResultStale(stale) == stale

\* `let result = ""`: the accumulator is a fresh local of every invocation
initialResult(stale) == <<>>

\* String(input) of a boolean
BoolText(b) == IF b THEN <<"t", "r", "u", "e">> ELSE <<"f", "a", "l", "s", "e">>

\* a plausible slip: the guard `typeof input === "boolean"` left out and every
\* non-object formatted into the template literal
accumulateBooleans(result, input) ==
  IF ~Truthy(input) THEN result
  ELSE IF input.t = "boolean" THEN result \o BoolText(input.b) \o <<SP>>
  ELSE IF input.t = "string" THEN result \o input.s \o <<SP>>
  ELSE appendKeys(result, ObjectEntries(input))

\* a plausible slip: only null and undefined skipped (input == null), so that the
\* empty string reaches the template literal
accumulateEmpty(result, input) ==
  IF input.t \in {"null", "undefined", "boolean"} THEN result
  ELSE IF input.t = "string" THEN result \o input.s \o <<SP>>
  ELSE appendKeys(result, ObjectEntries(input))

\* a plausible slip: the separator of the string branch left out (result += input)
accumulateUnseparated(result, input) ==
  IF ~Truthy(input) \/ input.t = "boolean" THEN result
  ELSE IF input.t = "string" THEN result \o input.s
  ELSE appendKeys(result, ObjectEntries(input))

\* a plausible slip: a string put in front of the accumulator, not behind it
accumulateInFront(result, input) ==
  IF ~Truthy(input) \/ input.t = "boolean" THEN result
  ELSE IF input.t = "string" THEN input.s \o <<SP>> \o result
  ELSE appendKeys(result, ObjectEntries(input))

\* one iteration of `for (const input of inputs)`
accumulate(result, input) ==
  IF ~Truthy(input) \/ input.t = "boolean" THEN result
  ELSE IF input.t = "string" THEN result \o input.s \o <<SP>>
  ELSE appendKeys(result, ObjectEntries(input))

RECURSIVE loop(_, _)
loop(result, inputs) ==
  IF inputs = <<>> THEN result ELSE loop(accumulate(result, inputs[1]), Tail(inputs))

\* a plausible slip: cn given the trimming return of cx
returnedAlwaysTrim(f, result) == trimEnd(result)

\* what the function returns from its accumulator: cx trims, cn does not
returned(f, result) == IF f = "cx" THEN trimEnd(result) ELSE result

cx(inputs) == returned("cx", loop(initialResult(<<>>), inputs))

cn(inputs) == returned("cn", loop(initialResult(<<>>), inputs))

(***************************************************************************)
(* createVariants: the version of create-variants.ts and the two of        *)
(* part_000. A group of the config is its own properties in insertion      *)
(* order; props is undefined, null or an object with fields in insertion   *)
(* order.                                                                  *)
(***************************************************************************)
Prop(name, val) == [name |-> name, val |-> val]

\* the value of a props field: null, undefined or a string name
Name(t, s) == [t |-> t, s |-> s]

NullName == Name("null", "")

UndefinedName == Name("undefined", "")

Field(k, v) == [k |-> k, v |-> v]

Props(t, f) == [t |-> t, f |-> f]

Config(base, variant, size) == [base |-> base, variant |-> variant, size |-> size]

\* property names every plain object inherits from Object.prototype
ObjectPrototypeNames == {"constructor", "toString", "valueOf", "hasOwnProperty"}

HasOwn(group, key) == \E k \in 1..Len(group) : group[k].name = key

\* a plausible slip, and what the README's "used as a fallback" would mean:
\* a name that is no key of the group resolves to the group's default
LookupOrDefault(group, key) ==
  IF HasOwn(group, key)
  THEN group[CHOOSE k \in 1..Len(group) : group[k].name = key].val
  ELSE IF HasOwn(group, "default")
  THEN group[CHOOSE k \in 1..Len(group) : group[k].name = "default"].val
  ELSE Undefined

\* group[key]: the own property, else the inherited one, else undefined
Lookup(group, key) ==
  IF HasOwn(group, key)
  THEN group[CHOOSE k \in 1..Len(group) : group[k].name = key].val
  ELSE IF key \in ObjectPrototypeNames THEN Fn ELSE Undefined

HasField(props, k) == \E n \in 1..Len(props.f) : props.f[n].k = k

\* props.variant / props.size on an object: a field is found by its name
GetField(props, k) ==
  IF HasField(props, k)
  THEN props.f[CHOOSE n \in 1..Len(props.f) : props.f[n].k = k].v
  ELSE UndefinedName

Nullish(props) == props.t \in {"null", "undefined"}

TruthyName(n) == n.t = "string" /\ n.s # ""

\* a plausible slip: ?? in place of the truthiness test, so that "" is looked up
keyOptionalNullish(props, k) ==
  IF ~Nullish(props) /\ GetField(props, k).t = "string" THEN GetField(props, k).s
  ELSE "default"

\* create-variants.ts: props?.variant ? props.variant : "default"
keyOptional(props, k) ==
  IF ~Nullish(props) /\ TruthyName(GetField(props, k)) THEN GetField(props, k).s ELSE "default"

\* a plausible slip: the field tested for being a string, so that "" is looked up
keyAndDefined(props, k) ==
  IF (props.t = "object") /\ GetField(props, k).t = "string" THEN GetField(props, k).s
  ELSE "default"

\* part_000: props && props.variant ? props.variant : "default"
keyAnd(props, k) ==
  IF (props.t = "object") /\ TruthyName(GetField(props, k)) THEN GetField(props, k).s
  ELSE "default"

\* part_000 (cn version): props.variant ?? "default", for props an object
keyNullish(props, k) ==
  IF GetField(props, k).t = "string" THEN GetField(props, k).s ELSE "default"

selectedKey(impl, props, k) ==
  CASE impl = "createVariants" -> keyOptional(props, k)
    [] impl = "createVariantsAnd" -> keyAnd(props, k)
    [] OTHER -> keyNullish(props, k)

\* the property access props.variant raises a TypeError on null and undefined
raises(impl, props) == impl = "createVariantsCn" /\ Nullish(props)

\* a plausible slip: size handed over before variant
argumentsSizeFirst(impl, config, props) ==
  << config.base,
     Lookup(config.size, selectedKey(impl, props, "size")),
     Lookup(config.variant, selectedKey(impl, props, "variant")) >>

\* the arguments handed to the class merger, in the order written
arguments(impl, config, props) ==
  << config.base,
     Lookup(config.variant, selectedKey(impl, props, "variant")),
     Lookup(config.size, selectedKey(impl, props, "size")) >>

\* the merger each version calls
merger(impl) == IF impl \in {"createVariantsCn", "cn"} THEN "cn" ELSE "cx"

createVariants(config, props) == cx(arguments("createVariants", config, props))

(***************************************************************************)
(* The inputs explored.                                                    *)
(***************************************************************************)
\* a letter, the space and the tab
Chars == {"a", SP, "\t"}

\* every string of at most MaxStrLen characters
Fragments == UNION {[1..n -> Chars] : n \in 0..MaxStrLen}

Key(name, val) == Entry(FALSE, name, val)

Symbol(name, val) == Entry(TRUE, name, val)

\* mappings of the shapes the tests use, and their neighbours
Mappings ==
  { <<>>,
    <<Key(<<"k">>, "true")>>,
    <<Key(<<"k">>, "false")>>,
    <<Key(<<"c">>, "true"), Key(<<"a">>, "true"), Key(<<"b">>, "true")>>,
    <<Key(<<"k">>, "true"), Key(<<"f">>, "false"), Key(<<"c">>, "true")>>,
    <<Key(<<"f">>, "false"), Key(<<"n">>, "null"), Key(<<"u">>, "undefined"),
      Key(<<"z">>, "zero")>>,
    <<Key(<<"1">>, "true"), Key(<<"k">>, "true")>>,
    <<Key(<<"k">>, "true"), Key(<<"1">>, "true")>>,
    <<Key(<<"2">>, "true"), Key(<<"1">>, "true")>>,
    <<Key(<<"0", "1">>, "true"), Key(<<"1">>, "true")>>,
    <<Symbol(<<"s">>, "true"), Key(<<"k">>, "true")>>,
    <<Key(<<"k">>, "true"), Key(<<"r">>, "cyclic")>>,
    <<Key(<<>>, "true")>>,
    <<Key(<<"k", SP>>, "true")>>,
    <<Key(<<"k", SP, "c">>, "true")>> }

ClassValues ==
  {Null, Undefined, Bool(FALSE), Bool(TRUE)}
    \cup {Str(s) : s \in Fragments}
    \cup {Obj(m) : m \in Mappings}

ArgLists == UNION {[1..n -> ClassValues] : n \in 0..MaxArgs}

BaseValues == {Str(<<"b">>), Str(<<>>), Null, Obj(<<Key(<<"o">>, "true"), Key(<<"p">>, "false")>>)}

VariantGroups ==
  { <<Prop("default", Str(<<"v">>)), Prop("sm", Str(<<"w">>))>>,
    <<Prop("sm", Str(<<"w">>))>>,
    <<Prop("default", Undefined), Prop("sm", Str(<<"w", SP, "x">>))>>,
    <<Prop("default", Str(<<>>)), Prop("sm", Bool(TRUE))>> }

SizeGroups ==
  { <<Prop("default", Str(<<"s">>)), Prop("sm", Str(<<"t">>))>>,
    <<Prop("sm", Str(<<"t">>))>>,
    <<Prop("default", Obj(<<Key(<<"q">>, "true")>>)), Prop("sm", Null)>>,
    <<Prop("default", Null), Prop("sm", Str(<<"t", SP>>))>> }

Configs == {Config(b, v, z) : b \in BaseValues, v \in VariantGroups, z \in SizeGroups}

\* a field is null, undefined, empty, "default", a key of every group, no key of any
\* group, or a name every object inherits
Names ==
  { NullName, UndefinedName, Name("string", ""), Name("string", "default"),
    Name("string", "sm"), Name("string", "ghost"), Name("string", "constructor") }

PropsValues ==
  {Props("undefined", <<>>), Props("null", <<>>), Props("object", <<>>)}
    \cup {Props("object", <<Field(k, n)>>) : k \in {"variant", "size"}, n \in Names}
    \cup {Props("object", <<Field("variant", n), Field("size", m)>>) : n \in Names, m \in Names}
    \cup {Props("object", <<Field("size", m), Field("variant", n)>>) : n \in Names, m \in Names}

NoConfig == Config(Undefined, <<>>, <<>>)

NoProps == Props("undefined", <<>>)

(***************************************************************************)
(* The calls. One call runs at a time (the functions are synchronous):     *)
(* it is entered, iterates over its inputs and returns; the caller then    *)
(* makes the same call again or moves on.                                  *)
(***************************************************************************)
VARIABLES pc, callee, config, props, inputs, i, result, ret, prev

vars == <<pc, callee, config, props, inputs, i, result, ret, prev>>

Init ==
  /\ pc = "idle"
  /\ callee = "none"
  /\ config = NoConfig
  /\ props = NoProps
  /\ inputs = <<>>
  /\ i = 1
  /\ result = <<>>
  /\ ret = <<>>
  /\ prev = <<>>

\* cx(...inputs)
CallCx ==
  /\ pc = "idle"
  /\ \E args \in ArgLists : inputs' = args
  /\ callee' = "cx"
  /\ i' = 1
  /\ result' = initialResult(result)
  /\ pc' = "loop"
  /\ UNCHANGED <<config, props, ret, prev>>

\* cn(...inputs)
CallCn ==
  /\ pc = "idle"
  /\ \E args \in ArgLists : inputs' = args
  /\ callee' = "cn"
  /\ i' = 1
  /\ result' = initialResult(result)
  /\ pc' = "loop"
  /\ UNCHANGED <<config, props, ret, prev>>

\* createVariants(config)(props), in the version impl
Enter(impl) ==
  /\ pc = "idle"
  /\ callee' = impl
  /\ \E c \in Configs, p \in PropsValues :
       /\ config' = c
       /\ props' = p
       /\ IF raises(impl, p)
          THEN pc' = "thrown" /\ UNCHANGED <<inputs, i, result>>
          ELSE /\ inputs' = arguments(impl, c, p)
               /\ i' = 1
               /\ result' = initialResult(result)
               /\ pc' = "loop"
  /\ UNCHANGED <<ret, prev>>

CallVariants == Enter("createVariants")

CallVariantsAnd == Enter("createVariantsAnd")

CallVariantsCn == Enter("createVariantsCn")

\* one iteration of the loop of cx / cn
Iterate ==
  /\ pc = "loop"
  /\ i <= Len(inputs)
  /\ result' = accumulate(result, inputs[i])
  /\ i' = i + 1
  /\ UNCHANGED <<pc, callee, config, props, inputs, ret, prev>>

\* return result.trimEnd() / return result
Return ==
  /\ pc = "loop"
  /\ i > Len(inputs)
  /\ ret' = returned(merger(callee), result)
  /\ pc' = "done"
  /\ UNCHANGED <<callee, config, props, inputs, i, result, prev>>

\* the caller keeps the returned string and makes the same call once more
Repeat ==
  /\ pc = "done"
  /\ prev' = <<ret>>
  /\ inputs' = IF callee \in {"cx", "cn"} THEN inputs ELSE arguments(callee, config, props)
  /\ i' = 1
  /\ result' = initialResult(result)
  /\ pc' = "loop"
  /\ UNCHANGED <<callee, config, props, ret>>

\* the caller moves on (after a return or a caught TypeError)
Resume ==
  /\ pc \in {"done", "thrown"}
  /\ pc' = "idle"
  /\ callee' = "none"
  /\ config' = NoConfig
  /\ props' = NoProps
  /\ inputs' = <<>>
  /\ i' = 1
  /\ result' = <<>>
  /\ ret' = <<>>
  /\ prev' = <<>>

Next ==
  \/ CallCx
  \/ CallCn
  \/ CallVariants
  \/ CallVariantsAnd
  \/ CallVariantsCn
  \/ Iterate
  \/ Return
  \/ Repeat
  \/ Resume

Spec == Init /\ [][Next]_vars

(***************************************************************************)
(* What the claims speak of.                                               *)
(***************************************************************************)
Returned == pc = "done"

ReturnedBy(f) == pc = "done" /\ callee = f

\* the tokens one input contributes: a non-empty string itself, a mapping its
\* string keys of truthy value, anything else nothing
Contribution(x) ==
  IF x.t = "string" /\ x.s # <<>> THEN <<x.s>>
  ELSE IF x.t = "object"
  THEN [k \in 1..Len(SelectSeq(ObjectEntries(x), LAMBDA e : TruthyFlag(e.val))) |->
          SelectSeq(ObjectEntries(x), LAMBDA e : TruthyFlag(e.val))[k].name]
  ELSE <<>>

RECURSIVE Contributions(_)
Contributions(xs) ==
  IF xs = <<>> THEN <<>> ELSE Contribution(xs[1]) \o Contributions(Tail(xs))

RECURSIVE Join(_)
\* the tokens with one space between neighbours
Join(ts) ==
  IF ts = <<>> THEN <<>>
  ELSE IF Len(ts) = 1 THEN ts[1]
  ELSE ts[1] \o <<SP>> \o Join(Tail(ts))

\* r is s without its trailing white space
IsTrimOf(r, s) ==
  /\ Len(r) <= Len(s)
  /\ r = SubSeq(s, 1, Len(r))
  /\ (r # <<>> => r[Len(r)] \notin WhiteSpace)
  /\ \A k \in (Len(r) + 1)..Len(s) : s[k] \in WhiteSpace

\* C1 as stated: cx returns the contributions of its inputs, in argument order,
\* joined by single spaces, each string fragment verbatim
C1_Original == ReturnedBy("cx") => ret = Join(Contributions(inputs))

\* C1 as amended: cx returns the contributions of its inputs, in argument order,
\* joined by single spaces, with the trailing white space of the joined string
\* removed (a last fragment ending in white space loses it)
C1_JoinedContributions == ReturnedBy("cx") => IsTrimOf(ret, Join(Contributions(inputs)))

\* a string, a mapping with a truthy and a falsy key, in this order, were merged
C1_Witness ==
  /\ ReturnedBy("cx")
  /\ inputs = <<Str(<<"a">>),
                Obj(<<Key(<<"k">>, "true"), Key(<<"f">>, "false"), Key(<<"c">>, "true")>>)>>
  /\ ret = <<"a", SP, "k", SP, "c">>

IsEmptyMarker(x) == x.t \in {"null", "undefined", "boolean"} \/ x = Str(<<>>)

\* C2: a call whose inputs are all empty markers (null, undefined, false, true,
\* the empty string), or that has no input, returns the empty string
C2_EmptyMarkersGiveEmpty ==
  (ReturnedBy("cx") /\ \A k \in 1..Len(inputs) : IsEmptyMarker(inputs[k])) => ret = <<>>

\* the boolean true and the empty string were merged
C2_Witness == ReturnedBy("cx") /\ inputs = <<Bool(TRUE), Str(<<>>)>> /\ ret = <<>>

\* the group's own "default" entry (undefined when the config lacks it)
DefaultEntry(group) ==
  IF HasOwn(group, "default")
  THEN group[CHOOSE k \in 1..Len(group) : group[k].name = "default"].val
  ELSE Undefined

\* props is omitted, null or undefined, or its field k is absent, null, undefined
\* or the empty string
Unselected(p, k) ==
  \/ Nullish(p)
  \/ ~HasField(p, k)
  \/ GetField(p, k) \in {NullName, UndefinedName, Name("string", "")}

\* C3: the function returned by createVariants resolves a group to its "default"
\* entry whenever props is omitted, null or undefined or the group's field is absent,
\* null, undefined or ""; so the calls with {} and with undefined both return
\* cx(config.base, config.variant.default, config.size.default)
C3_DefaultWhenUnselected ==
  ReturnedBy("createVariants") =>
    /\ Unselected(props, "variant") => inputs[2] = DefaultEntry(config.variant)
    /\ Unselected(props, "size") => inputs[3] = DefaultEntry(config.size)
    /\ props \in {Props("object", <<>>), Props("undefined", <<>>)} =>
         ret = cx(<<config.base, DefaultEntry(config.variant), DefaultEntry(config.size)>>)

\* the variant field was the empty string and the call returned the defaults
C3_Witness ==
  /\ ReturnedBy("createVariants")
  /\ props = Props("object", <<Field("variant", Name("string", ""))>>)
  /\ DefaultEntry(config.variant) = Str(<<"v">>)
  /\ ret = <<"b", SP, "v", SP, "s">>

\* the field k of props is a non-empty name that is no key of the group
Unknown(p, k, group) ==
  ~Nullish(p) /\ TruthyName(GetField(p, k)) /\ ~HasOwn(group, GetField(p, k).s)

SelectedName(p, k) == IF Unselected(p, k) THEN "default" ELSE GetField(p, k).s

\* props with its fields written in the opposite order
Swapped(p) == Props(p.t, [k \in 1..Len(p.f) |-> p.f[Len(p.f) + 1 - k]])

\* C5: the variant function returns the contributions of config.base, of the
\* resolved variant and of the resolved size, in this order, whatever the order in
\* which props lists its fields
C5_BaseVariantSize ==
  ReturnedBy("createVariants") =>
    /\ IsTrimOf(ret,
         Join(Contribution(config.base)
                \o Contribution(Lookup(config.variant, SelectedName(props, "variant")))
                \o Contribution(Lookup(config.size, SelectedName(props, "size")))))
    /\ ret = createVariants(config, Swapped(props))

\* props named size before variant; the result names variant before size
C5_Witness ==
  /\ ReturnedBy("createVariants")
  /\ props = Props("object", <<Field("size", Name("string", "sm")),
                               Field("variant", Name("string", "sm"))>>)
  /\ ret = <<"b", SP, "w", SP, "t">>

\* C6: neither cx nor a function returned by createVariants ever raises a runtime
\* error, whatever the shape of props, config and mappings
C6_NeverRaises == pc # "thrown"

\* s without one trailing separating space
WithoutSeparator(s) == IF s # <<>> /\ s[Len(s)] = SP THEN SubSeq(s, 1, Len(s) - 1) ELSE s

\* C7 as stated: cx removes exactly one trailing space, so that the white space of
\* the caller's fragments, the last one included, is returned verbatim
C7_Original == ReturnedBy("cx") => ret = WithoutSeparator(result)

\* C7 as amended: cx removes all trailing white space of the accumulated string,
\* the separator and the trailing white space of the last fragments alike; leading
\* and internal white space of the fragments is returned verbatim
C7_TrailingWhiteSpaceRemoved == ReturnedBy("cx") => IsTrimOf(ret, result)

\* leading and internal spaces of the fragments survive, the trailing one does not
C7_Witness ==
  /\ ReturnedBy("cx")
  /\ inputs = <<Str(<<SP, "a">>), Str(<<"a", SP>>)>>
  /\ ret = <<SP, "a", SP, "a">>

HasSpace(s) == \E k \in 1..Len(s) : s[k] = SP

\* no string fragment and no mapping key contains a space
SpaceFree(xs) ==
  \A k \in 1..Len(xs) :
    /\ xs[k].t = "string" => ~HasSpace(xs[k].s)
    /\ xs[k].t = "object" => \A n \in 1..Len(xs[k].m) : ~HasSpace(xs[k].m[n].name)

\* no mapping key is the empty string
NoEmptyKey(xs) ==
  \A k \in 1..Len(xs) :
    xs[k].t = "object" => \A n \in 1..Len(xs[k].m) : xs[k].m[n].name # <<>>

\* no two consecutive spaces, no space at either end
Tidy(s) ==
  /\ \A k \in 1..(Len(s) - 1) : ~(s[k] = SP /\ s[k + 1] = SP)
  /\ s # <<>> => (s[1] # SP /\ s[Len(s)] # SP)

\* C8 as stated: when no fragment and no key contains a space, the output of cx has
\* no two consecutive spaces and no space at either end
C8_Original == (ReturnedBy("cx") /\ SpaceFree(inputs)) => Tidy(ret)

\* C8 as amended: when no fragment and no key contains a space and no mapping key
\* is the empty string, the output of cx has no two consecutive spaces and no space
\* at either end
C8_Tidy == (ReturnedBy("cx") /\ SpaceFree(inputs) /\ NoEmptyKey(inputs)) => Tidy(ret)

\* an empty string before a mapping of three truthy keys
C8_Witness ==
  /\ ReturnedBy("cx")
  /\ inputs = <<Str(<<>>),
                Obj(<<Key(<<"c">>, "true"), Key(<<"a">>, "true"), Key(<<"b">>, "true")>>)>>
  /\ ret = <<"c", SP, "a", SP, "b">>

\* the string-keyed entries of truthy value, in insertion order
TruthyKeys(m) == SelectSeq(m, LAMBDA e : ~e.sym /\ TruthyFlag(e.val))

KeyNames(es) == [k \in 1..Len(es) |-> es[k].name]

\* C9 as stated: the tokens of a mapping are its truthy string keys in insertion
\* order, numeric-looking keys included; symbol keys are skipped
C9_Original ==
  (ReturnedBy("cx") /\ Len(inputs) = 1 /\ inputs[1].t = "object") =>
    IsTrimOf(ret, Join(KeyNames(TruthyKeys(inputs[1].m))))

\* p arranges the entries es with the array-index keys first, ascending, and the
\* other keys after them in insertion order
KeyOrder(p, es) ==
  \A a \in 1..Len(es) : \A b \in 1..Len(es) :
    a < b =>
      /\ IsArrayIndex(es[p[b]]) => IsArrayIndex(es[p[a]])
      /\ (IsArrayIndex(es[p[a]]) /\ IsArrayIndex(es[p[b]])) =>
           NumVal(es[p[a]].name) < NumVal(es[p[b]].name)
      /\ (~IsArrayIndex(es[p[a]]) /\ ~IsArrayIndex(es[p[b]])) => p[a] < p[b]

\* C9 as amended: the tokens of a mapping are its truthy string keys, the keys that
\* are canonical array indices first in ascending numeric order, the other keys
\* after them in insertion order; symbol keys are skipped
C9_KeyOrder ==
  (ReturnedBy("cx") /\ Len(inputs) = 1 /\ inputs[1].t = "object") =>
    \E p \in Permutations(1..Len(TruthyKeys(inputs[1].m))) :
      /\ KeyOrder(p, TruthyKeys(inputs[1].m))
      /\ IsTrimOf(ret, Join([k \in 1..Len(p) |-> TruthyKeys(inputs[1].m)[p[k]].name]))

\* the key "1", inserted after "k", comes out first
C9_Witness ==
  /\ ReturnedBy("cx")
  /\ inputs = <<Obj(<<Key(<<"k">>, "true"), Key(<<"1">>, "true")>>)>>
  /\ ret = <<"1", SP, "k">>

\* C10: a call made again after it has returned, with the same arguments (and, for
\* the variant function, the same config), returns the same string
C10_SameCallSameString == (Returned /\ prev # <<>>) => ret = prev[1]

\* the variant function was called twice and returned "b v s" both times
C10_Witness ==
  /\ ReturnedBy("createVariants")
  /\ prev = <<ret>>
  /\ ret = <<"b", SP, "v", SP, "s">>

\* the non-empty ones among cx(a), cx(b), cx(c), ... for the inputs a, b, c, ...
RECURSIVE Parts(_)
Parts(xs) ==
  IF xs = <<>> THEN <<>>
  ELSE (IF cx(<<xs[1]>>) = <<>> THEN <<>> ELSE <<cx(<<xs[1]>>)>>) \o Parts(Tail(xs))

\* every contribution (string fragment, truthy key) is non-empty and does not end
\* in white space
CleanEnds(xs) ==
  \A k \in 1..Len(xs) : \A n \in 1..Len(Contribution(xs[k])) :
    /\ Contribution(xs[k])[n] # <<>>
    /\ Contribution(xs[k])[n][Len(Contribution(xs[k])[n])] \notin WhiteSpace

\* C11 as stated: cx(a, b, c) is cx(a), cx(b), cx(c) with the empty ones removed
\* and one space between the others
C11_Original == (Returned /\ merger(callee) = "cx") => ret = Join(Parts(inputs))

\* C11 as amended: the same, for inputs of which no string fragment ends in white
\* space and no mapping key of truthy value is empty or ends in white space
C11_Splittable ==
  (Returned /\ merger(callee) = "cx" /\ CleanEnds(inputs)) => ret = Join(Parts(inputs))

\* three inputs, the first of them empty: cx(null, "w x", "s") is "w x s"
C11_Witness ==
  /\ Returned
  /\ merger(callee) = "cx"
  /\ inputs = <<Null, Str(<<"w", SP, "x">>), Str(<<"s">>)>>
  /\ ret = <<"w", SP, "x", SP, "s">>

\* the call was cx(m) for a mapping m of a single string key
SingleKey ==
  /\ ReturnedBy("cx")
  /\ Len(inputs) = 1
  /\ inputs[1].t = "object"
  /\ Len(inputs[1].m) = 1
  /\ ~inputs[1].m[1].sym

\* C12: cx({k: true}) equals cx(k) for the key k passed as a string, and
\* cx({k: false}) is the empty string
C12_KeyAsString ==
  SingleKey =>
    /\ inputs[1].m[1].val = "true" => ret = cx(<<Str(inputs[1].m[1].name)>>)
    /\ inputs[1].m[1].val = "false" => ret = <<>>

\* cx({k: true}) returned "k"
C12_Witness ==
  /\ ReturnedBy("cx")
  /\ inputs = <<Obj(<<Key(<<"k">>, "true")>>)>>
  /\ ret = <<"k">>

\* the slots (base, resolved variant, resolved size) that are no empty marker
Remaining(xs) == SelectSeq(xs, LAMBDA x : ~IsEmptyMarker(x))

\* C13: in the variant function a slot (config.base, the resolved variant, the
\* resolved size) that is null, undefined, a boolean or "" contributes nothing: the
\* result is that of the remaining slots, one space between them, none at either
\* end, and the empty string when all three slots are such markers
C13_EmptySlots ==
  (ReturnedBy("createVariants") /\ \E k \in 1..3 : IsEmptyMarker(inputs[k])) =>
    /\ IsTrimOf(ret, Join(Contributions(Remaining(inputs))))
    /\ (ret # <<>> => ret[Len(ret)] # SP)
    /\ (SpaceFree(inputs) /\ NoEmptyKey(inputs)) => Tidy(ret)
    /\ Remaining(inputs) = <<>> => ret = <<>>

\* the base was null: the variant "v" and the size "s" alone are returned
C13_Witness ==
  /\ ReturnedBy("createVariants")
  /\ inputs = <<Null, Str(<<"v">>), Str(<<"s">>)>>
  /\ ret = <<"v", SP, "s">>

\* every input is a non-empty string without a space
Tokens(xs) ==
  \A k \in 1..Len(xs) : xs[k].t = "string" /\ xs[k].s # <<>> /\ ~HasSpace(xs[k].s)

\* no input ends in a white-space character (a tab, a line break)
NoTrailingWhiteSpace(xs) ==
  \A k \in 1..Len(xs) : xs[k].s # <<>> => xs[k].s[Len(xs[k].s)] \notin WhiteSpace

\* C14 as stated: for every sequence of non-empty, space-free strings, the output
\* of cx split on single spaces is the sequence of the inputs
C14_Original ==
  (ReturnedBy("cx") /\ Tokens(inputs)) => split(ret) = [k \in 1..Len(inputs) |-> inputs[k].s]

\* C14 as amended: for every sequence of at least one non-empty, space-free string,
\* none of them ending in a white-space character, the output of cx split on
\* single spaces is the sequence of the inputs, duplicates included
C14_RoundTrip ==
  (ReturnedBy("cx") /\ Tokens(inputs) /\ inputs # <<>> /\ NoTrailingWhiteSpace(inputs)) =>
    split(ret) = [k \in 1..Len(inputs) |-> inputs[k].s]

\* the same token twice comes back twice
C14_Witness ==
  /\ ReturnedBy("cx")
  /\ inputs = <<Str(<<"a">>), Str(<<"a">>)>>
  /\ split(ret) = <<(<<"a">>), (<<"a">>)>>

\* C15: for every config and every props value, the version choosing the key with
\* `props?.variant ? ... ` and the version choosing it with `props && props.variant ? ...`
\* return the same string
C15_SameString ==
  /\ ReturnedBy("createVariants") => ret = cx(arguments("createVariantsAnd", config, props))
  /\ ReturnedBy("createVariantsAnd") => ret = cx(arguments("createVariants", config, props))

\* the `&&` version called with an empty variant name and a size absent from the config
C15_Witness ==
  /\ ReturnedBy("createVariantsAnd")
  /\ props.t = "object"
  /\ GetField(props, "variant") = Name("string", "")
  /\ selectedKey("createVariantsAnd", props, "size") # "default"
  /\ ~HasOwn(config.size, selectedKey("createVariantsAnd", props, "size"))
  /\ ret = cx(arguments("createVariants", config, props))
  /\ ret # <<>>

\* C16: for every input sequence cx(inputs) is cn(inputs) without its trailing
\* white space, and cn(inputs), untrimmed, is empty when nothing contributes and
\* otherwise is the contributions joined by single spaces followed by the one
\* separating space appended after the last contribution
C16_TrimmedCn ==
  /\ (Returned /\ merger(callee) = "cn") =>
       /\ IsTrimOf(cx(inputs), ret)
       /\ ret = result
       /\ ret = IF Contributions(inputs) = <<>> THEN <<>>
                ELSE Join(Contributions(inputs)) \o <<SP>>
  /\ (Returned /\ merger(callee) = "cx") => IsTrimOf(ret, cn(inputs))

\* cn keeps the tab of its input and the separator after it, cx drops both
C16_Witness ==
  /\ ReturnedBy("cn")
  /\ inputs = <<Str(<<"a", "\t">>)>>
  /\ ret = <<"a", "\t", SP>>
  /\ cx(inputs) = <<"a">>

====
